---- MODULE Spec2Model ----
(***************************************************************************)
(* Model of the intersection micro-simulation of self_designed_env/        *)
(* new_env.py: Vehicle, TrafficMetricsCollector and TrafficSimulation.     *)
(*                                                                         *)
(* Lengths and speeds are the source's decimal values counted in tenths    *)
(* of a unit (x = -7 is -70, speed 1.5 is 15, acceleration 0.1 is 1), so   *)
(* every kinematic quantity of the source is an integer here.  Averages    *)
(* are exact fractions <<numerator, denominator>> in lowest terms.         *)
(*                                                                         *)
(* The arithmetic is exact decimal arithmetic.  The source computes in     *)
(* binary floating point, whose sums drift from the decimal value by less  *)
(* than 1e-12; the drift is not modelled, so a vehicle that the source     *)
(* puts a rounding error short of a threshold (y = -10.000000000000014)    *)
(* sits exactly on the threshold here.                                     *)
(***************************************************************************)
EXTENDS Integers, Sequences, FiniteSets, TLC

VARIABLES vehicles, next_vehicle_id, current_step, total_passed_vehicles,
          spawn_probabilities, metrics_collector,
          traffic_light,  \* the phase controller that drives the simulation
          phase_log       \* what its step() has returned since it was
                          \* constructed or reset, oldest first

vars == <<vehicles, next_vehicle_id, current_step, total_passed_vehicles,
          spawn_probabilities, metrics_collector, traffic_light, phase_log>>

light_vars == <<traffic_light, phase_log>>

(***************************************************************************)
(* Bounds of the model.                                                    *)
(***************************************************************************)
MaxStep == 3
MaxVehicles == 2
MaxRoadStep == 110
MaxTurnStep == 60
MaxRoadVehicles == 2
SpawnTicks == 2
MaxCrowdStep == 36
CrowdSpawnTicks == 4
MaxCrowdVehicles == 5
SwitchTick == 8
MaxSwitchStep == 20
MaxWait == 10
MaxQuietStep == 100
MaxJamStep == 66
SpawnGap == 50
DriveSpawnTicks == 200
MaxDriveStep == 430
MaxDriveVehicles == 1
MaxPhases == 2
MaxDuration == 2
MaxLightStep == 201
MaxAdded == 1
MaxAddedStep == 3
MaxPairStep == 60
GoTicks == 19
MaxQueueStep == 103
MaxQueueVehicles == 1
MaxCalls == 3
MaxCallStep == 2
MaxCallPassed == 2
EarlyTicks == 1
RespawnTick == 58
MaxRespawnStep == 60
MaxRespawnVehicles == 3

(***************************************************************************)
(* Program constants (tenths of a unit where they are lengths or speeds).  *)
(***************************************************************************)
initial_speed == 15
max_speed == 25
acceleration == 1
deceleration == 3
lane_capacity == 4
window == 100
box_half_width == 300
approach_line == 100
exit_line == 600
center_tol == 60
lane_tol == 40
spawn_distance == 800
straight_offset == 70
left_offset == 200
queue_speed == 5
zone_near == 150
zone_far == 400
prob_straight == 4
prob_left == 3

Directions == {"north", "south", "east", "west"}
LaneTypes == {"straight", "left"}
Lanes == Directions \X LaneTypes
LaneOrder == << <<"north", "straight">>, <<"north", "left">>,
                <<"south", "straight">>, <<"south", "left">>,
                <<"east", "straight">>, <<"east", "left">>,
                <<"west", "straight">>, <<"west", "left">> >>
\* the four phases and two values outside them
PhaseInputs == {-1, 0, 1, 2, 3, 4}
ValidPhases == {0, 1, 2, 3}

Abs(n) == IF n < 0 THEN -n ELSE n
Min(a, b) == IF a < b THEN a ELSE b
Max(a, b) == IF a > b THEN a ELSE b

RECURSIVE GCD(_, _)
GCD(a, b) == IF b = 0 THEN a ELSE GCD(b, a % b)

\* the exact value n/d in lowest terms (d > 0, n >= 0)
Frac(n, d) == LET g == GCD(n, d) IN <<n \div g, d \div g>>

RECURSIVE SumOver(_, _)
SumOver(f, S) == IF S = {} THEN 0
                 ELSE LET k == CHOOSE k \in S : TRUE
                      IN f[k] + SumOver(f, S \ {k})

(***************************************************************************)
(* Vehicle                                                                 *)
(***************************************************************************)
set_initial_position(direction, lane_type) ==
  LET off == IF lane_type = "straight" THEN straight_offset ELSE left_offset
  IN CASE direction = "north" -> [x |-> -off, y |-> -spawn_distance]
       [] direction = "south" -> [x |-> off, y |-> spawn_distance]
       [] direction = "east" -> [x |-> -spawn_distance, y |-> -off]
       [] direction = "west" -> [x |-> spawn_distance, y |-> off]

Vehicle(vehicle_id, direction, lane_type, spawn_time) ==
  LET p == set_initial_position(direction, lane_type)
  IN [id |-> vehicle_id, direction |-> direction, lane_type |-> lane_type,
      x |-> p.x, y |-> p.y, prev_x |-> p.x, prev_y |-> p.y,
      spawn_time |-> spawn_time, waiting_time |-> 0,
      passed |-> FALSE, has_turned |-> FALSE, collided |-> FALSE,
      in_intersection_zone |-> FALSE, speed |-> initial_speed]

\* whether the constructor returns: with an unrecognised direction
\* set_initial_position assigns neither x nor y and the read of self.x that
\* follows it raises AttributeError
constructs(direction, lane_type) == direction \in Directions

crossed_centerline(v) ==
  CASE v.direction = "north" -> v.prev_y < 0 /\ 0 <= v.y
    [] v.direction = "south" -> v.prev_y > 0 /\ 0 >= v.y
    [] v.direction = "east" -> v.prev_x < 0 /\ 0 <= v.x
    [] v.direction = "west" -> v.prev_x > 0 /\ 0 >= v.x
    [] OTHER -> FALSE

approaching_intersection(v) ==
  CASE v.direction = "north" -> v.y < -approach_line
    [] v.direction = "south" -> v.y > approach_line
    [] v.direction = "east" -> v.x < -approach_line
    [] v.direction = "west" -> v.x > approach_line
    [] OTHER -> FALSE

in_intersection(v) == Abs(v.x) <= box_half_width /\ Abs(v.y) <= box_half_width

\* the right-of-way test with the two left-turn phases exchanged
should_wait_swapped(v, current_phase) ==
  IF ~approaching_intersection(v) THEN FALSE
  ELSE CASE current_phase = 0 ->
              ~(v.direction \in {"north", "south"} /\ v.lane_type = "straight")
         [] current_phase = 1 ->
              ~(v.direction \in {"east", "west"} /\ v.lane_type = "straight")
         [] current_phase = 3 ->
              ~(v.direction \in {"north", "south"} /\ v.lane_type = "left")
         [] current_phase = 2 ->
              ~(v.direction \in {"east", "west"} /\ v.lane_type = "left")
         [] OTHER -> TRUE

\* the right-of-way test with an unrecognised phase letting everyone go
should_wait_default_go(v, current_phase) ==
  IF ~approaching_intersection(v) THEN FALSE
  ELSE CASE current_phase = 0 ->
              ~(v.direction \in {"north", "south"} /\ v.lane_type = "straight")
         [] current_phase = 1 ->
              ~(v.direction \in {"east", "west"} /\ v.lane_type = "straight")
         [] current_phase = 2 ->
              ~(v.direction \in {"north", "south"} /\ v.lane_type = "left")
         [] current_phase = 3 ->
              ~(v.direction \in {"east", "west"} /\ v.lane_type = "left")
         [] OTHER -> FALSE

should_wait(v, current_phase) ==
  IF ~approaching_intersection(v) THEN FALSE
  ELSE CASE current_phase = 0 ->
              ~(v.direction \in {"north", "south"} /\ v.lane_type = "straight")
         [] current_phase = 1 ->
              ~(v.direction \in {"east", "west"} /\ v.lane_type = "straight")
         [] current_phase = 2 ->
              ~(v.direction \in {"north", "south"} /\ v.lane_type = "left")
         [] current_phase = 3 ->
              ~(v.direction \in {"east", "west"} /\ v.lane_type = "left")
         [] OTHER -> TRUE

\* the turn test as it would be without the has_turned guard
should_turn_left_again(v) ==
  IF v.lane_type # "left" THEN FALSE
  ELSE IF ~(Abs(v.x) <= box_half_width /\ Abs(v.y) <= box_half_width) THEN FALSE
  ELSE CASE v.direction = "north" ->
              Abs(v.x + left_offset) < lane_tol /\ v.y >= -center_tol
         [] v.direction = "south" ->
              Abs(v.x - left_offset) < lane_tol /\ v.y <= center_tol
         [] v.direction = "east" ->
              Abs(v.y + left_offset) < lane_tol /\ v.x >= -center_tol
         [] v.direction = "west" ->
              Abs(v.y - left_offset) < lane_tol /\ v.x <= center_tol
         [] OTHER -> FALSE

\* the turn test as it would be without the centerline tolerance
should_turn_left_early(v) ==
  IF v.lane_type # "left" \/ v.has_turned THEN FALSE
  ELSE IF ~(Abs(v.x) <= box_half_width /\ Abs(v.y) <= box_half_width) THEN FALSE
  ELSE CASE v.direction = "north" -> Abs(v.x + left_offset) < lane_tol
         [] v.direction = "south" -> Abs(v.x - left_offset) < lane_tol
         [] v.direction = "east" -> Abs(v.y + left_offset) < lane_tol
         [] v.direction = "west" -> Abs(v.y - left_offset) < lane_tol
         [] OTHER -> FALSE

should_turn_left_now(v) ==
  IF v.lane_type # "left" \/ v.has_turned THEN FALSE
  ELSE IF ~(Abs(v.x) <= box_half_width /\ Abs(v.y) <= box_half_width) THEN FALSE
  ELSE CASE v.direction = "north" ->
              Abs(v.x + left_offset) < lane_tol /\ v.y >= -center_tol
         [] v.direction = "south" ->
              Abs(v.x - left_offset) < lane_tol /\ v.y <= center_tol
         [] v.direction = "east" ->
              Abs(v.y + left_offset) < lane_tol /\ v.x >= -center_tol
         [] v.direction = "west" ->
              Abs(v.y - left_offset) < lane_tol /\ v.x <= center_tol
         [] OTHER -> FALSE

\* the turn as it would be without recording that it happened
turn_left_unmarked(v) ==
  CASE v.direction = "north" ->
         [v EXCEPT !.direction = "west", !.x = -50, !.y = 200]
    [] v.direction = "south" ->
         [v EXCEPT !.direction = "east", !.x = 50, !.y = -200]
    [] v.direction = "east" ->
         [v EXCEPT !.direction = "north", !.x = -200, !.y = -50]
    [] v.direction = "west" ->
         [v EXCEPT !.direction = "south", !.x = 200, !.y = 50]
    [] OTHER -> v

turn_left(v) ==
  LET w == CASE v.direction = "north" ->
                  [v EXCEPT !.direction = "west", !.x = -50, !.y = 200]
             [] v.direction = "south" ->
                  [v EXCEPT !.direction = "east", !.x = 50, !.y = -200]
             [] v.direction = "east" ->
                  [v EXCEPT !.direction = "north", !.x = -200, !.y = -50]
             [] v.direction = "west" ->
                  [v EXCEPT !.direction = "south", !.x = 200, !.y = 50]
             [] OTHER -> v
  IN [w EXCEPT !.has_turned = TRUE]

move(v) ==
  LET w == CASE v.direction = "north" -> [v EXCEPT !.y = @ + v.speed]
             [] v.direction = "south" -> [v EXCEPT !.y = @ - v.speed]
             [] v.direction = "east" -> [v EXCEPT !.x = @ + v.speed]
             [] v.direction = "west" -> [v EXCEPT !.x = @ - v.speed]
             [] OTHER -> v
  IN [w EXCEPT !.prev_x = w.x, !.prev_y = w.y]

\* the exit test as it would be with the north exit forgotten
check_passed_not_north(v) ==
  IF v.direction \in {"north", "south"}
  THEN IF v.direction = "south" /\ v.y < -exit_line
       THEN [v EXCEPT !.passed = TRUE] ELSE v
  ELSE IF (v.direction = "east" /\ v.x > exit_line)
          \/ (v.direction = "west" /\ v.x < -exit_line)
       THEN [v EXCEPT !.passed = TRUE] ELSE v

check_passed(v) ==
  IF v.direction \in {"north", "south"}
  THEN IF (v.direction = "north" /\ v.y > exit_line)
          \/ (v.direction = "south" /\ v.y < -exit_line)
       THEN [v EXCEPT !.passed = TRUE] ELSE v
  ELSE IF (v.direction = "east" /\ v.x > exit_line)
          \/ (v.direction = "west" /\ v.x < -exit_line)
       THEN [v EXCEPT !.passed = TRUE] ELSE v

\* accelerate as it would be if a stopped vehicle could not start again
accelerate_stalled(v) ==
  IF v.speed = 0 THEN v
  ELSE [v EXCEPT !.speed = Min(max_speed, @ + acceleration)]

\* accelerate as it would be without the upper clamp
accelerate_unclamped(v) == [v EXCEPT !.speed = @ + acceleration]

accelerate(v) == [v EXCEPT !.speed = Min(max_speed, @ + acceleration)]

decelerate(v) == [v EXCEPT !.speed = Max(0, @ - deceleration),
                           !.waiting_time = @ + 1]

\* update as it would be if the zone flag were computed after the move
update_flags_last(v, current_phase, intersection_clear) ==
  IF v.passed \/ v.collided THEN v
  ELSE LET wait == should_wait(v, current_phase)
           v2 == IF wait
                 THEN IF approaching_intersection(v)
                      THEN decelerate(v) ELSE accelerate(v)
                 ELSE accelerate(v)
           v3 == IF (~wait) /\ should_turn_left_now(v2)
                 THEN turn_left(v2) ELSE v2
           v4 == check_passed(move(v3))
       IN [v4 EXCEPT !.in_intersection_zone = in_intersection(v4)]

\* update as it would be without the early return for finished vehicles
update_unguarded(v, current_phase, intersection_clear) ==
  LET v1 == [v EXCEPT !.in_intersection_zone = in_intersection(v)]
      wait == should_wait(v1, current_phase)
      v2 == IF wait
            THEN IF approaching_intersection(v1)
                 THEN decelerate(v1) ELSE accelerate(v1)
            ELSE accelerate(v1)
      v3 == IF (~wait) /\ should_turn_left_now(v2)
            THEN turn_left(v2) ELSE v2
  IN check_passed(move(v3))

update(v, current_phase, intersection_clear) ==
  IF v.passed \/ v.collided THEN v
  ELSE LET v1 == [v EXCEPT !.in_intersection_zone = in_intersection(v)]
           wait == should_wait(v1, current_phase)
           v2 == IF wait
                 THEN IF approaching_intersection(v1)
                      THEN decelerate(v1) ELSE accelerate(v1)
                 ELSE accelerate(v1)
           v3 == IF (~wait) /\ should_turn_left_now(v2)
                 THEN turn_left(v2) ELSE v2
       IN check_passed(move(v3))

(***************************************************************************)
(* TrafficMetricsCollector                                                 *)
(***************************************************************************)
collector_reset ==
  [waiting_times |-> << >>, throughputs |-> << >>,
   queue_lengths |-> [l \in Lanes |-> << >>],
   total_passed_vehicles |-> 0, collision_count |-> 0, total_steps |-> 0]

is_in_waiting_zone(d) ==
  CASE d.direction = "north" -> -zone_far < d.y /\ d.y < -zone_near
    [] d.direction = "south" -> zone_near < d.y /\ d.y < zone_far
    [] d.direction = "east" -> -zone_far < d.x /\ d.x < -zone_near
    [] d.direction = "west" -> zone_near < d.x /\ d.x < zone_far
    [] OTHER -> FALSE

\* a bounded append that drops the newest stored sample on overflow
deque_append_evicts_newest(q, e) ==
  IF Len(q) >= window THEN Append(SubSeq(q, 1, Len(q) - 1), e)
  ELSE Append(q, e)

\* deque(maxlen = window).append
deque_append(q, e) ==
  IF Len(q) >= window THEN Append(Tail(q), e) ELSE Append(q, e)

\* update_metrics as it would be if the rate used the tick's own count
update_metrics_tick_rate(m, vehicles_info, current_phase, step, passed_this_step, total_passed) ==
  LET active == {i \in DOMAIN vehicles_info : ~vehicles_info[i].passed}
      queue_counts == [l \in Lanes |->
         Cardinality({i \in active :
            /\ vehicles_info[i].speed < queue_speed
            /\ is_in_waiting_zone(vehicles_info[i])
            /\ <<vehicles_info[i].direction, vehicles_info[i].lane_type>> = l})]
      wsum == SumOver([i \in active |-> vehicles_info[i].waiting_time], active)
      mean == IF active # {} THEN Frac(wsum, Cardinality(active)) ELSE <<0, 1>>
  IN [m EXCEPT
        !.total_steps = step,
        !.total_passed_vehicles = total_passed,
        !.queue_lengths = [l \in Lanes |-> deque_append(@[l], queue_counts[l])],
        !.waiting_times = Append(@, mean),
        !.throughputs = IF step > 0 THEN Append(@, Frac(passed_this_step, step))
                        ELSE @]

\* update_metrics as it would be if a lane's sample counted every active
\* vehicle of the lane, wherever it is and however fast
update_metrics_counts_lane(m, vehicles_info, current_phase, step, passed_this_step, total_passed) ==
  LET active == {i \in DOMAIN vehicles_info : ~vehicles_info[i].passed}
      queue_counts == [l \in Lanes |->
         Cardinality({i \in active :
            <<vehicles_info[i].direction, vehicles_info[i].lane_type>> = l})]
      wsum == SumOver([i \in active |-> vehicles_info[i].waiting_time], active)
      mean == IF active # {} THEN Frac(wsum, Cardinality(active)) ELSE <<0, 1>>
  IN [m EXCEPT
        !.total_steps = step,
        !.total_passed_vehicles = total_passed,
        !.queue_lengths = [l \in Lanes |-> deque_append(@[l], queue_counts[l])],
        !.waiting_times = Append(@, mean),
        !.throughputs = IF step > 0 THEN Append(@, Frac(total_passed, step))
                        ELSE @]

update_metrics(m, vehicles_info, current_phase, step, passed_this_step, total_passed) ==
  LET active == {i \in DOMAIN vehicles_info : ~vehicles_info[i].passed}
      queue_counts == [l \in Lanes |->
         Cardinality({i \in active :
            /\ vehicles_info[i].speed < queue_speed
            /\ is_in_waiting_zone(vehicles_info[i])
            /\ <<vehicles_info[i].direction, vehicles_info[i].lane_type>> = l})]
      wsum == SumOver([i \in active |-> vehicles_info[i].waiting_time], active)
      mean == IF active # {} THEN Frac(wsum, Cardinality(active)) ELSE <<0, 1>>
  IN [m EXCEPT
        !.total_steps = step,
        !.total_passed_vehicles = total_passed,
        !.queue_lengths = [l \in Lanes |-> deque_append(@[l], queue_counts[l])],
        !.waiting_times = Append(@, mean),
        !.throughputs = IF step > 0 THEN Append(@, Frac(total_passed, step))
                        ELSE @]

AddFrac(a, b) == Frac(a[1] * b[2] + b[1] * a[2], a[2] * b[2])

\* the exact sum of the fractions s[lo] .. s[hi]
RECURSIVE SumRange(_, _, _)
SumRange(s, lo, hi) ==
  IF lo > hi THEN <<0, 1>>
  ELSE IF lo = hi THEN s[lo]
  ELSE AddFrac(SumRange(s, lo, (lo + hi) \div 2),
               SumRange(s, (lo + hi) \div 2 + 1, hi))

\* np.mean of a non-empty sequence of fractions
MeanFrac(s) ==
  LET t == SumRange(s, 1, Len(s)) IN Frac(t[1], t[2] * Len(s))

\* np.mean of a non-empty sequence of integers
MeanInt(q) == MeanFrac([k \in 1 .. Len(q) |-> <<q[k], 1>>])

get_metrics(m) ==
  [average_waiting_time |->
     IF m.waiting_times # << >> THEN MeanFrac(m.waiting_times) ELSE <<0, 1>>,
   queue_lengths |->
     [l \in Lanes |-> IF m.queue_lengths[l] # << >>
                      THEN MeanInt(m.queue_lengths[l]) ELSE <<0, 1>>],
   throughput |->
     IF m.throughputs # << >> THEN m.throughputs[Len(m.throughputs)]
     ELSE <<0, 1>>,
   total_vehicles_passed |-> m.total_passed_vehicles,
   current_vehicles |-> Len(m.waiting_times)]

(***************************************************************************)
(* The fixed-time phase controllers.  A controller is a record; kind names *)
(* its class.  total_steps is an attribute of FixedTimingTrafficLight      *)
(* only and stays 0 in the records of the other two classes.               *)
(***************************************************************************)
\* the default phase_durations of FixedTimeTrafficLight and the durations
\* of the phases of FixedCycleTrafficLight
default_phase_durations == <<60, 60, 40, 40>>

\* the default phase_durations of FixedTimingTrafficLight
basic_phase_durations == <<30, 30, 20, 20>>

FixedTimeTrafficLight(phase_durations) ==
  [kind |-> "FixedTimeTrafficLight", phase_durations |-> phase_durations,
   num_phases |-> Len(phase_durations), current_phase |-> 0,
   phase_timer |-> 0, total_steps |-> 0]

FixedTimingTrafficLight(phase_durations) ==
  [kind |-> "FixedTimingTrafficLight", phase_durations |-> phase_durations,
   num_phases |-> Len(phase_durations), current_phase |-> 0,
   phase_timer |-> 0, total_steps |-> 0]

FixedCycleTrafficLight ==
  [kind |-> "FixedCycleTrafficLight",
   phase_durations |-> default_phase_durations,
   num_phases |-> Len(default_phase_durations), current_phase |-> 0,
   phase_timer |-> 0, total_steps |-> 0]

\* FixedTimeTrafficLight.step as it would be with > in place of >=
FixedTimeTrafficLight_step_late(t) ==
  LET timer == t.phase_timer + 1
  IN IF timer > t.phase_durations[t.current_phase + 1]
     THEN [t EXCEPT !.current_phase = (@ + 1) % t.num_phases,
                    !.phase_timer = 0]
     ELSE [t EXCEPT !.phase_timer = timer]

FixedTimeTrafficLight_step(t) ==
  LET timer == t.phase_timer + 1
  IN IF timer >= t.phase_durations[t.current_phase + 1]
     THEN [t EXCEPT !.current_phase = (@ + 1) % t.num_phases,
                    !.phase_timer = 0]
     ELSE [t EXCEPT !.phase_timer = timer]

FixedTimingTrafficLight_step(t) ==
  LET timer == t.phase_timer + 1
      u == [t EXCEPT !.total_steps = @ + 1]
  IN IF timer >= t.phase_durations[t.current_phase + 1]
     THEN [u EXCEPT !.current_phase = (@ + 1) % t.num_phases,
                    !.phase_timer = 0]
     ELSE [u EXCEPT !.phase_timer = timer]

\* FixedCycleTrafficLight.step as it would be with > in place of >=
FixedCycleTrafficLight_step_late(t, dt) ==
  LET timer == t.phase_timer + dt
  IN IF timer > t.phase_durations[t.current_phase + 1]
     THEN [t EXCEPT !.current_phase = (@ + 1) % t.num_phases,
                    !.phase_timer = 0]
     ELSE [t EXCEPT !.phase_timer = timer]

FixedCycleTrafficLight_step(t, dt) ==
  LET timer == t.phase_timer + dt
  IN IF timer >= t.phase_durations[t.current_phase + 1]
     THEN [t EXCEPT !.current_phase = (@ + 1) % t.num_phases,
                    !.phase_timer = 0]
     ELSE [t EXCEPT !.phase_timer = timer]

\* get_status() of FixedTimeTrafficLight, without the description text;
\* remaining_time is a whole number of steps
FixedTimeTrafficLight_get_status(t) ==
  [current_phase |-> t.current_phase,
   remaining_time |-> t.phase_durations[t.current_phase + 1] - t.phase_timer]

\* round(x, 1) of a whole number x, in tenths
round_1(x) == 10 * x

\* get_status() of FixedCycleTrafficLight, without the name and direction
\* texts; remaining_time is rounded to one decimal and counted in tenths
FixedCycleTrafficLight_get_status(t) ==
  [phase_index |-> t.current_phase,
   remaining_time |->
     round_1(t.phase_durations[t.current_phase + 1] - t.phase_timer),
   current_phase |-> t.current_phase]

\* step() of whichever class the controller is, FixedCycleTrafficLight
\* being stepped with its default dt = 1
light_step(t) ==
  CASE t.kind = "FixedTimeTrafficLight" -> FixedTimeTrafficLight_step(t)
    [] t.kind = "FixedTimingTrafficLight" -> FixedTimingTrafficLight_step(t)
    [] t.kind = "FixedCycleTrafficLight" -> FixedCycleTrafficLight_step(t, 1)

\* reset() of the three classes
light_reset(t) ==
  [t EXCEPT !.current_phase = 0, !.phase_timer = 0, !.total_steps = 0]

\* the controller a simulation is built with and has not stepped yet
light_idle ==
  /\ traffic_light = FixedCycleTrafficLight
  /\ phase_log = << >>

(***************************************************************************)
(* TrafficSimulation                                                       *)
(***************************************************************************)
default_spawn_probabilities ==
  [l \in Lanes |-> IF l[2] = "straight" THEN prob_straight ELSE prob_left]

lane_vehicles(vs, direction, lane_type) ==
  {i \in DOMAIN vs : /\ vs[i].direction = direction
                     /\ vs[i].lane_type = lane_type
                     /\ ~vs[i].passed /\ ~vs[i].collided}

LaneIndex(l) == CHOOSE k \in 1 .. Len(LaneOrder) : LaneOrder[k] = l

\* draws is the set of lanes whose random trial succeeded in this tick; the
\* loop visits the lanes in LaneOrder, and a spawn changes no other lane's
\* count, so the accepted lanes are those of draws below capacity and each
\* takes the next free id in visiting order.
accepted_lanes(vs, draws) ==
  {l \in draws : Cardinality(lane_vehicles(vs, l[1], l[2])) < lane_capacity}

add_vehicle(vs, vehicle_id, direction, lane_type, step) ==
  [i \in DOMAIN vs \cup {vehicle_id} |->
     IF i = vehicle_id THEN Vehicle(vehicle_id, direction, lane_type, step)
     ELSE vs[i]]

\* spawn_vehicles as it would be if ids were taken from the size of the map
spawn_vehicles_len_ids(vs, next_id, step, draws) ==
  LET acc == accepted_lanes(vs, draws)
      id_of(l) == Cardinality(DOMAIN vs)
                  + Cardinality({m \in acc : LaneIndex(m) < LaneIndex(l)})
      new_ids == {id_of(l) : l \in acc}
      lane_of(i) == CHOOSE l \in acc : id_of(l) = i
  IN [vehicles |-> [i \in DOMAIN vs \cup new_ids |->
                      IF i \in new_ids
                      THEN add_vehicle(vs, i, lane_of(i)[1], lane_of(i)[2],
                                       step)[i]
                      ELSE vs[i]],
      next_vehicle_id |-> next_id + Cardinality(acc)]

spawn_vehicles(vs, next_id, step, draws) ==
  LET acc == accepted_lanes(vs, draws)
      id_of(l) == next_id
                  + Cardinality({m \in acc : LaneIndex(m) < LaneIndex(l)})
      new_ids == {id_of(l) : l \in acc}
      lane_of(i) == CHOOSE l \in acc : id_of(l) = i
  IN [vehicles |-> [i \in DOMAIN vs \cup new_ids |->
                      IF i \in new_ids
                      THEN add_vehicle(vs, i, lane_of(i)[1], lane_of(i)[2],
                                       step)[i]
                      ELSE vs[i]],
      next_vehicle_id |-> next_id + Cardinality(acc)]

collect_info(vs) ==
  [i \in DOMAIN vs |->
     [x |-> vs[i].x, y |-> vs[i].y, direction |-> vs[i].direction,
      lane_type |-> vs[i].lane_type, waiting_time |-> vs[i].waiting_time,
      speed |-> vs[i].speed, passed |-> vs[i].passed]]

\* the lanes that could spawn if the trial were random() <= prob
Spawnable_inclusive == {l \in Lanes : spawn_probabilities[l] >= 0}

\* the lanes whose trial random() < prob can succeed
Spawnable == {l \in Lanes : spawn_probabilities[l] > 0}

Init ==
  /\ vehicles = << >>
  /\ next_vehicle_id = 0
  /\ current_step = 0
  /\ total_passed_vehicles = 0
  /\ spawn_probabilities = default_spawn_probabilities
  /\ metrics_collector = collector_reset
  /\ light_idle

update_all(vs, current_phase) ==
  [i \in DOMAIN vs |-> update(vs[i], current_phase, TRUE)]

vehicles_to_remove(vs) == {i \in DOMAIN vs : vs[i].passed}

\* the removal loop as it would be if it emptied the map whenever a vehicle
\* has passed
remove_vehicles_all(vs, ids) == IF ids = {} THEN vs ELSE << >>

\* the removal loop as it would be if it deleted nothing
remove_none(vs, ids) == vs

remove_vehicles(vs, ids) == [i \in DOMAIN vs \ ids |-> vs[i]]

\* the loop body as it would be if a vehicle had to wait while any other
\* vehicle is inside the intersection box
loop_body_yields(acc, i, current_phase) ==
  LET busy == \E j \in DOMAIN acc.vehicles \ {i} :
                 in_intersection(acc.vehicles[j])
      v == update(acc.vehicles[i], IF busy THEN -1 ELSE current_phase, TRUE)
  IN [vehicles |-> [acc.vehicles EXCEPT ![i] = v],
      vehicles_to_remove |-> IF v.passed
                             THEN Append(acc.vehicles_to_remove, i)
                             ELSE acc.vehicles_to_remove,
      passed_count |-> IF v.passed THEN acc.passed_count + 1
                       ELSE acc.passed_count]

\* one iteration of the update loop of step, for the vehicle stored under i
loop_body(acc, i, current_phase) ==
  LET v == update(acc.vehicles[i], current_phase, TRUE)
  IN [vehicles |-> [acc.vehicles EXCEPT ![i] = v],
      vehicles_to_remove |-> IF v.passed
                             THEN Append(acc.vehicles_to_remove, i)
                             ELSE acc.vehicles_to_remove,
      passed_count |-> IF v.passed THEN acc.passed_count + 1
                       ELSE acc.passed_count]

\* the update loop of step, visiting the vehicles in the given order
RECURSIVE update_loop(_, _, _)
update_loop(acc, order, current_phase) ==
  IF order = << >> THEN acc
  ELSE update_loop(loop_body(acc, Head(order), current_phase), Tail(order),
                   current_phase)

\* what step leaves behind after spawning when its loop visits the
\* vehicles vs in the given order
step_outcome(vs, order, current_phase) ==
  LET r == update_loop([vehicles |-> vs, vehicles_to_remove |-> << >>,
                        passed_count |-> 0], order, current_phase)
      removed == {r.vehicles_to_remove[k] :
                    k \in 1 .. Len(r.vehicles_to_remove)}
      kept == remove_vehicles(r.vehicles, removed)
  IN [updated |-> r.vehicles, vehicles |-> kept, removed |-> removed,
      total_passed_vehicles |-> total_passed_vehicles + r.passed_count,
      metrics |-> update_metrics(metrics_collector, collect_info(kept),
                                 current_phase, current_step + 1,
                                 r.passed_count,
                                 total_passed_vehicles + r.passed_count)]

\* the orders in which the keys S can be visited
Orders(S) ==
  {o \in [1 .. Cardinality(S) -> S] :
     \A a, b \in 1 .. Cardinality(S) : a # b => o[a] # o[b]}

\* step as it would be if the metrics were collected before the update loop
step_collects_first(current_phase, draws) ==
  LET spawned == spawn_vehicles(vehicles, next_vehicle_id, current_step + 1,
                                draws)
      updated == update_all(spawned.vehicles, current_phase)
      passed_count == Cardinality(vehicles_to_remove(updated))
      kept == remove_vehicles(updated, vehicles_to_remove(updated))
  IN /\ current_step' = current_step + 1
     /\ next_vehicle_id' = spawned.next_vehicle_id
     /\ vehicles' = kept
     /\ total_passed_vehicles' = total_passed_vehicles + passed_count
     /\ metrics_collector' =
          update_metrics(metrics_collector, collect_info(spawned.vehicles),
                         current_phase, current_step + 1, 0,
                         total_passed_vehicles)
     /\ UNCHANGED spawn_probabilities

\* step as it would be if it stored the tick's count instead of adding it
step_overwrites_total(current_phase, draws) ==
  LET spawned == spawn_vehicles(vehicles, next_vehicle_id, current_step + 1,
                                draws)
      updated == update_all(spawned.vehicles, current_phase)
      passed_count == Cardinality(vehicles_to_remove(updated))
      kept == remove_vehicles(updated, vehicles_to_remove(updated))
  IN /\ current_step' = current_step + 1
     /\ next_vehicle_id' = spawned.next_vehicle_id
     /\ vehicles' = kept
     /\ total_passed_vehicles' = passed_count
     /\ metrics_collector' =
          update_metrics(metrics_collector, collect_info(kept), current_phase,
                         current_step + 1, passed_count, passed_count)
     /\ UNCHANGED spawn_probabilities

step(current_phase, draws) ==
  LET spawned == spawn_vehicles(vehicles, next_vehicle_id, current_step + 1,
                                draws)
      updated == update_all(spawned.vehicles, current_phase)
      passed_count == Cardinality(vehicles_to_remove(updated))
      kept == remove_vehicles(updated, vehicles_to_remove(updated))
  IN /\ current_step' = current_step + 1
     /\ next_vehicle_id' = spawned.next_vehicle_id
     /\ vehicles' = kept
     /\ total_passed_vehicles' = total_passed_vehicles + passed_count
     /\ metrics_collector' =
          update_metrics(metrics_collector, collect_info(kept), current_phase,
                         current_step + 1, passed_count,
                         total_passed_vehicles + passed_count)
     /\ UNCHANGED spawn_probabilities

\* reset as it would be if it kept the cumulative passed count
reset_keeps_passed_count ==
  /\ vehicles' = << >>
  /\ next_vehicle_id' = 0
  /\ current_step' = 0
  /\ metrics_collector' = collector_reset
  /\ UNCHANGED <<total_passed_vehicles, spawn_probabilities>>

reset ==
  /\ vehicles' = << >>
  /\ next_vehicle_id' = 0
  /\ current_step' = 0
  /\ total_passed_vehicles' = 0
  /\ metrics_collector' = collector_reset
  /\ UNCHANGED spawn_probabilities

Step ==
  \E current_phase \in PhaseInputs, draws \in SUBSET Spawnable :
    /\ current_step < MaxStep
    /\ next_vehicle_id + Cardinality(accepted_lanes(vehicles, draws))
         <= MaxVehicles
    /\ UNCHANGED light_vars
    /\ step(current_phase, draws)

Reset == reset /\ UNCHANGED light_vars

Next == Step \/ Reset

Spec == Init /\ [][Next]_vars

(***************************************************************************)
(* One vehicle driven through its whole life by direct update calls with   *)
(* arbitrary phases.                                                       *)
(***************************************************************************)
InitVehicle ==
  /\ \E l \in Lanes : vehicles = add_vehicle(<< >>, 0, l[1], l[2], 0)
  /\ next_vehicle_id = 1
  /\ current_step = 0
  /\ total_passed_vehicles = 0
  /\ spawn_probabilities = default_spawn_probabilities
  /\ metrics_collector = collector_reset
  /\ light_idle

UpdateVehicle ==
  \E i \in DOMAIN vehicles, current_phase \in PhaseInputs :
    /\ vehicles[i].waiting_time < MaxWait
    /\ vehicles' = [vehicles EXCEPT ![i] = update(@, current_phase, TRUE)]
    /\ UNCHANGED light_vars
    /\ UNCHANGED <<next_vehicle_id, current_step, total_passed_vehicles,
                   spawn_probabilities, metrics_collector>>

NextVehicle == UpdateVehicle

SpecVehicle == InitVehicle /\ [][NextVehicle]_vars

(***************************************************************************)
(* The simulation stepped with one phase held; random trials succeed only  *)
(* in the first spawn_ticks ticks.                                         *)
(***************************************************************************)
RoadStep(current_phase, max_step, spawn_ticks, max_vehicles) ==
  \E draws \in SUBSET Spawnable :
    /\ current_step < max_step
    /\ current_step >= spawn_ticks => draws = {}
    /\ next_vehicle_id + Cardinality(accepted_lanes(vehicles, draws))
         <= max_vehicles
    /\ UNCHANGED light_vars
    /\ step(current_phase, draws)

StepPhase0 == RoadStep(0, MaxRoadStep, SpawnTicks, MaxRoadVehicles)

NextPhase0 == StepPhase0

SpecPhase0 == Init /\ [][NextPhase0]_vars

StepPhase2 == RoadStep(2, MaxTurnStep, SpawnTicks, MaxRoadVehicles)

NextPhase2 == StepPhase2

SpecPhase2 == Init /\ [][NextPhase2]_vars

StepPair == RoadStep(0, MaxPairStep, EarlyTicks, MaxRoadVehicles)

NextPair == StepPair

SpecPair == Init /\ [][NextPair]_vars

NextPhase0Reset == StepPhase0 \/ Reset

SpecPhase0Reset == Init /\ [][NextPhase0Reset]_vars

(***************************************************************************)
(* Phase 2 held with spawning configured on the north and west left-turn   *)
(* lanes only.                                                             *)
(***************************************************************************)
InitCrowd ==
  /\ vehicles = << >>
  /\ next_vehicle_id = 0
  /\ current_step = 0
  /\ total_passed_vehicles = 0
  /\ spawn_probabilities =
       [l \in Lanes |-> IF l \in {<<"north", "left">>, <<"west", "left">>}
                        THEN prob_left ELSE 0]
  /\ metrics_collector = collector_reset
  /\ light_idle

StepCrowd == RoadStep(2, MaxCrowdStep, CrowdSpawnTicks, MaxCrowdVehicles)

NextCrowd == StepCrowd

SpecCrowd == InitCrowd /\ [][NextCrowd]_vars

(***************************************************************************)
(* Phase 1 held for the first SwitchTick ticks, phase 0 from then on.      *)
(***************************************************************************)
StepSwitch ==
  RoadStep(IF current_step < SwitchTick THEN 1 ELSE 0, MaxSwitchStep,
           SpawnTicks, MaxRoadVehicles)

NextSwitch == StepSwitch

SpecSwitch == Init /\ [][NextSwitch]_vars

(***************************************************************************)
(* Phase 0 held; random trials succeed in the first ticks and again late   *)
(* in the run, after the first vehicles have left.                         *)
(***************************************************************************)
StepRespawn ==
  \E draws \in SUBSET Spawnable :
    /\ current_step < MaxRespawnStep
    /\ (current_step >= EarlyTicks /\ current_step < RespawnTick)
         => draws = {}
    /\ next_vehicle_id + Cardinality(accepted_lanes(vehicles, draws))
         <= MaxRespawnVehicles
    /\ UNCHANGED light_vars
    /\ step(0, draws)

NextRespawn == StepRespawn

SpecRespawn == Init /\ [][NextRespawn]_vars

(***************************************************************************)
(* The metrics collector driven directly through update_metrics, with any  *)
(* tick number, zero included, and any cumulative count.                   *)
(***************************************************************************)
CallSnapshots ==
  {<< >>, collect_info([i \in {0} |-> Vehicle(0, "north", "straight", 0)])}

UpdateMetricsCall ==
  \E vehicles_info \in CallSnapshots, step_arg \in 0 .. MaxCallStep,
     total_passed \in 0 .. MaxCallPassed :
    /\ Len(metrics_collector.waiting_times) < MaxCalls
    /\ metrics_collector' =
         update_metrics(metrics_collector, vehicles_info, 0, step_arg, 0,
                        total_passed)
    /\ UNCHANGED light_vars
    /\ UNCHANGED <<vehicles, next_vehicle_id, current_step,
                   total_passed_vehicles, spawn_probabilities>>

NextCollector == UpdateMetricsCall

SpecCollector == Init /\ [][NextCollector]_vars

(***************************************************************************)
(* Phase 0 for the first GoTicks ticks and phase 1 from then on, run past  *)
(* the length of the queue windows; vehicles spawn in the first ticks.     *)
(***************************************************************************)
StepQueue ==
  \E draws \in SUBSET Spawnable :
    /\ current_step < MaxQueueStep
    /\ current_step >= EarlyTicks => draws = {}
    /\ next_vehicle_id + Cardinality(accepted_lanes(vehicles, draws))
         <= MaxQueueVehicles
    /\ UNCHANGED light_vars
    /\ step(IF current_step < GoTicks THEN 0 ELSE 1, draws)

NextQueue == StepQueue

SpecQueue == Init /\ [][NextQueue]_vars

(***************************************************************************)
(* add_vehicle called directly with recognised and unrecognised arguments, *)
(* then the simulation stepped without further spawning.                   *)
(***************************************************************************)
DirectionArgs == Directions \cup {"up"}

LaneTypeArgs == LaneTypes \cup {"bus"}

AddVehicleCall ==
  \E direction \in DirectionArgs, lane_type \in LaneTypeArgs :
    /\ next_vehicle_id < MaxAdded
    /\ IF constructs(direction, lane_type)
       THEN /\ vehicles' = add_vehicle(vehicles, next_vehicle_id, direction,
                                       lane_type, current_step)
            /\ next_vehicle_id' = next_vehicle_id + 1
       ELSE UNCHANGED <<vehicles, next_vehicle_id>>
    /\ UNCHANGED light_vars
    /\ UNCHANGED <<current_step, total_passed_vehicles, spawn_probabilities,
                   metrics_collector>>

StepAdded ==
  \E current_phase \in ValidPhases :
    /\ current_step < MaxAddedStep
    /\ UNCHANGED light_vars
    /\ step(current_phase, {})

NextAdded == AddVehicleCall \/ StepAdded

SpecAdded == Init /\ [][NextAdded]_vars

(***************************************************************************)
(* A controller of any of the three classes, with its default durations or *)
(* with configured ones, stepped and reset on its own.                     *)
(***************************************************************************)
DurationLists ==
  UNION {[1 .. n -> 1 .. MaxDuration] : n \in 1 .. MaxPhases}

Controllers ==
  {FixedTimeTrafficLight(default_phase_durations),
   FixedTimingTrafficLight(basic_phase_durations), FixedCycleTrafficLight}
    \cup {FixedTimeTrafficLight(d) : d \in DurationLists}
    \cup {FixedTimingTrafficLight(d) : d \in DurationLists}

InitLight ==
  /\ vehicles = << >>
  /\ next_vehicle_id = 0
  /\ current_step = 0
  /\ total_passed_vehicles = 0
  /\ spawn_probabilities = default_spawn_probabilities
  /\ metrics_collector = collector_reset
  /\ traffic_light \in Controllers
  /\ phase_log = << >>

sim_vars ==
  <<vehicles, next_vehicle_id, current_step, total_passed_vehicles,
    spawn_probabilities, metrics_collector>>

LightStep ==
  /\ Len(phase_log) < MaxLightStep
  /\ traffic_light' = light_step(traffic_light)
  /\ phase_log' = Append(phase_log, traffic_light'.current_phase)
  /\ UNCHANGED sim_vars

LightReset ==
  /\ traffic_light' = light_reset(traffic_light)
  /\ phase_log' = << >>
  /\ UNCHANGED sim_vars

NextLight == LightStep \/ LightReset

SpecLight == InitLight /\ [][NextLight]_vars

(***************************************************************************)
(* The simulation driven by the cyclic controller, as the visualizer's     *)
(* frame callback does: the controller is stepped and the phase it returns *)
(* is given to the simulation's step.  Random trials succeed only on every *)
(* SpawnGap-th tick of the first DriveSpawnTicks ticks, and the run goes   *)
(* on for more than a controller cycle after the last of them.             *)
(***************************************************************************)
Frame ==
  \E draws \in SUBSET Spawnable :
    /\ current_step < MaxDriveStep
    /\ (current_step >= DriveSpawnTicks \/ current_step % SpawnGap # 0)
         => draws = {}
    /\ next_vehicle_id + Cardinality(accepted_lanes(vehicles, draws))
         <= MaxDriveVehicles
    /\ traffic_light' = light_step(traffic_light)
    /\ phase_log' = Append(phase_log, traffic_light'.current_phase)
    /\ step(traffic_light'.current_phase, draws)

NextDrive == Frame

\* the part of Frame that counts the tick: Frame is enabled exactly when
\* Tick is, and every Frame step is a Tick step
Tick == current_step < MaxDriveStep /\ current_step' = current_step + 1

SpecDrive == Init /\ [][NextDrive]_vars /\ WF_current_step(Tick)

(***************************************************************************)
(* Spawning on the north and west left-turn lanes only; phase 3 for the    *)
(* first GoTicks ticks, which brings the west-bound vehicles into their    *)
(* waiting zone, and phase 2 from then on, which stops them there and lets *)
(* the north-bound vehicles turn into their lane.                          *)
(***************************************************************************)
StepJam ==
  RoadStep(IF current_step < GoTicks THEN 3 ELSE 2, MaxJamStep,
           CrowdSpawnTicks, MaxCrowdVehicles)

NextJam == StepJam

SpecJam == InitCrowd /\ [][NextJam]_vars

(***************************************************************************)
(* A FixedCycleTrafficLight and a FixedTimeTrafficLight with the durations *)
(* 60, 60, 40, 40, constructed together and always stepped and reset       *)
(* together.  Here traffic_light is the pair of the two controllers and an *)
(* entry of phase_log the pair of what their step() calls returned.        *)
(***************************************************************************)
InitTwin ==
  /\ vehicles = << >>
  /\ next_vehicle_id = 0
  /\ current_step = 0
  /\ total_passed_vehicles = 0
  /\ spawn_probabilities = default_spawn_probabilities
  /\ metrics_collector = collector_reset
  /\ traffic_light = <<FixedCycleTrafficLight,
                       FixedTimeTrafficLight(default_phase_durations)>>
  /\ phase_log = << >>

TwinStep ==
  /\ Len(phase_log) < MaxLightStep
  /\ traffic_light' = <<FixedCycleTrafficLight_step(traffic_light[1], 1),
                        FixedTimeTrafficLight_step(traffic_light[2])>>
  /\ phase_log' = Append(phase_log, <<traffic_light'[1].current_phase,
                                      traffic_light'[2].current_phase>>)
  /\ UNCHANGED sim_vars

TwinReset ==
  /\ traffic_light' = <<light_reset(traffic_light[1]),
                        light_reset(traffic_light[2])>>
  /\ phase_log' = << >>
  /\ UNCHANGED sim_vars

NextTwin == TwinStep \/ TwinReset

SpecTwin == InitTwin /\ [][NextTwin]_vars

(***************************************************************************)
(* Every spawn probability set to 0, any phase on every tick.              *)
(***************************************************************************)
InitQuiet ==
  /\ vehicles = << >>
  /\ next_vehicle_id = 0
  /\ current_step = 0
  /\ total_passed_vehicles = 0
  /\ spawn_probabilities = [l \in Lanes |-> 0]
  /\ metrics_collector = collector_reset
  /\ light_idle

StepQuiet ==
  \E current_phase \in PhaseInputs, draws \in SUBSET Spawnable :
    /\ current_step < MaxQuietStep
    /\ next_vehicle_id + Cardinality(accepted_lanes(vehicles, draws))
         <= MaxRoadVehicles
    /\ UNCHANGED light_vars
    /\ step(current_phase, draws)

NextQuiet == StepQuiet

SpecQuiet == InitQuiet /\ [][NextQuiet]_vars

(***************************************************************************)
(* Claims                                                                  *)
(***************************************************************************)

\* C1: every vehicle in the vehicle map has 0 <= speed <= max_speed, whatever
\* phases it has been updated with.
SpeedWithinLimits ==
  \A i \in DOMAIN vehicles :
    0 <= vehicles[i].speed /\ vehicles[i].speed <= max_speed

\* a vehicle that accelerated on every tick of a drive long enough for the
\* upper clamp to have acted
SpeedClampReached ==
  \E i \in DOMAIN vehicles :
    /\ vehicles[i].speed = max_speed
    /\ vehicles[i].waiting_time = 0
    /\ vehicles[i].direction = "north"
    /\ vehicles[i].y >= 0

\* C2: after every step no vehicle left in the map is passed, and an id that
\* has been handed out and is no longer in the map (its vehicle was removed)
\* is not in the map after the next step either.
PassedVehiclesRemoved ==
  [][/\ \A i \in DOMAIN vehicles' : ~vehicles'[i].passed
     /\ \A i \in 0 .. (next_vehicle_id - 1) :
          i \notin DOMAIN vehicles => i \notin DOMAIN vehicles']_vars

\* a vehicle has passed and been removed while others are still on the road
SomeVehicleRemoved ==
  /\ total_passed_vehicles > 0
  /\ vehicles # << >>
  /\ \E i \in 0 .. (next_vehicle_id - 1) : i \notin DOMAIN vehicles

\* C3: right after the spawn phase of the next step, whatever its random
\* trials, no (direction, lane_type) lane holds more than lane_capacity
\* active vehicles.
LaneWithinCapacityAfterSpawn ==
  \A draws \in SUBSET Spawnable : \A l \in Lanes :
    Cardinality(lane_vehicles(
        spawn_vehicles(vehicles, next_vehicle_id, current_step + 1,
                       draws).vehicles, l[1], l[2])) <= lane_capacity

\* C4: has_turned never goes back to false, is true only for left-lane
\* vehicles, and a vehicle's direction changes only in the update in which
\* has_turned becomes true.
TurnsOnce ==
  [][\A i \in DOMAIN vehicles \cap DOMAIN vehicles' :
       /\ vehicles[i].has_turned => vehicles'[i].has_turned
       /\ vehicles'[i].has_turned => vehicles'[i].lane_type = "left"
       /\ vehicles'[i].direction # vehicles[i].direction =>
            ~vehicles[i].has_turned /\ vehicles'[i].has_turned]_vars

\* a vehicle that turned and was then updated all the way to the exit
TurnedVehicleDroveOn ==
  \E i \in DOMAIN vehicles : vehicles[i].has_turned /\ vehicles[i].passed

\* the classes that the four phases let through
GreenClass(current_phase) ==
  CASE current_phase = 0 -> {"north", "south"} \X {"straight"}
    [] current_phase = 1 -> {"east", "west"} \X {"straight"}
    [] current_phase = 2 -> {"north", "south"} \X {"left"}
    [] current_phase = 3 -> {"east", "west"} \X {"left"}
    [] OTHER -> {}

\* C5: inside the approach zone should_wait is false exactly for the class
\* the phase lets through; outside it should_wait is false for every phase.
RightOfWayTable ==
  \A i \in DOMAIN vehicles :
    LET v == vehicles[i] IN
    /\ approaching_intersection(v) =>
         \A p \in ValidPhases :
           should_wait(v, p) = (<<v.direction, v.lane_type>> \notin GreenClass(p))
    /\ ~approaching_intersection(v) =>
         \A p \in PhaseInputs : ~should_wait(v, p)

\* a left-lane vehicle that has waited in its approach zone and has since
\* left it
LeftApproachZoneAfterWaiting ==
  \E i \in DOMAIN vehicles :
    /\ ~approaching_intersection(vehicles[i])
    /\ ~vehicles[i].passed
    /\ vehicles[i].lane_type = "left"
    /\ vehicles[i].waiting_time > 0

\* C6: for a phase outside 0..3 the update is defined and every vehicle in
\* its approach zone waits: should_wait is true, it decelerates (floor 0)
\* and its waiting_time grows by one.
UnknownPhaseAllWait ==
  \A i \in DOMAIN vehicles : \A p \in PhaseInputs \ ValidPhases :
    LET v == vehicles[i]
        w == update(v, p, TRUE) IN
    (approaching_intersection(v) /\ ~v.passed) =>
      /\ should_wait(v, p)
      /\ w.speed = Max(0, v.speed - deceleration)
      /\ w.speed <= v.speed
      /\ w.waiting_time = v.waiting_time + 1

\* a vehicle well inside its approach zone that has been stopped there
StoppedInsideApproachZone ==
  \E i \in DOMAIN vehicles :
    /\ approaching_intersection(vehicles[i])
    /\ vehicles[i].speed = 0
    /\ vehicles[i].waiting_time > 0
    /\ in_intersection(vehicles[i])

\* C7: under phase 0 a north-bound straight-lane vehicle never accrues
\* waiting_time and is out of the map (passed and removed) before it is
\* 107 ticks old.
NorthStraightPassesUnwaited ==
  \A i \in DOMAIN vehicles :
    (vehicles[i].direction = "north" /\ vehicles[i].lane_type = "straight") =>
      /\ vehicles[i].waiting_time = 0
      /\ current_step - vehicles[i].spawn_time < 107

\* a north-bound straight-lane vehicle whose next update takes it past the
\* exit line
NorthStraightAboutToExit ==
  \E i \in DOMAIN vehicles :
    /\ vehicles[i].direction = "north"
    /\ vehicles[i].lane_type = "straight"
    /\ vehicles[i].x = -straight_offset
    /\ vehicles[i].y <= exit_line
    /\ vehicles[i].y + max_speed > exit_line

\* C8: under phase 2 a north-bound left-lane vehicle stays north-bound and
\* unturned until the one update that makes it west-bound and turned (at the
\* latest its 33rd); from then on it keeps heading west at y unchanged,
\* accelerating and never waiting, and leaves the map only when x < -60.
NorthLeftTurnsWestOnce ==
  [][\A i \in DOMAIN vehicles :
       LET v == vehicles[i] IN
       /\ (v.direction = "north" /\ v.lane_type = "left" /\ ~v.has_turned) =>
            /\ i \in DOMAIN vehicles'
            /\ \/ /\ vehicles'[i].direction = "north"
                  /\ ~vehicles'[i].has_turned
                  /\ current_step' - v.spawn_time < 32
               \/ /\ vehicles'[i].direction = "west"
                  /\ vehicles'[i].has_turned
       /\ (v.direction = "west" /\ v.lane_type = "left" /\ v.has_turned) =>
            IF i \in DOMAIN vehicles'
            THEN /\ vehicles'[i].direction = "west"
                 /\ vehicles'[i].has_turned
                 /\ vehicles'[i].speed = Min(max_speed, v.speed + acceleration)
                 /\ vehicles'[i].x = v.x - vehicles'[i].speed
                 /\ vehicles'[i].y = v.y
                 /\ vehicles'[i].waiting_time = v.waiting_time
                 /\ vehicles'[i].x >= -exit_line
            ELSE v.x - Min(max_speed, v.speed + acceleration) < -exit_line]_vars

\* a turned vehicle heading west whose next update takes it past x = -60
TurnedWestAboutToExit ==
  \E i \in DOMAIN vehicles :
    /\ vehicles[i].direction = "west"
    /\ vehicles[i].has_turned
    /\ vehicles[i].y = left_offset
    /\ vehicles[i].x - max_speed < -exit_line

\* within 10 units of the intersection boundary on the approach side, and
\* not yet past the line where right-of-way stops being checked
near_stop_line(v) ==
  CASE v.direction = "north" ->
         -(box_half_width + approach_line) <= v.y /\ v.y < -approach_line
    [] v.direction = "south" ->
         approach_line < v.y /\ v.y <= box_half_width + approach_line
    [] v.direction = "east" ->
         -(box_half_width + approach_line) <= v.x /\ v.x < -approach_line
    [] v.direction = "west" ->
         approach_line < v.x /\ v.x <= box_half_width + approach_line

\* C9: for a north-bound straight-lane vehicle, while phase 1 is held its
\* waiting_time grows by exactly 1 on a tick it starts within 10 units of
\* the stop line and is unchanged on a tick it starts farther away; once
\* phase 0 is active it is unchanged; it never decreases.
WaitsOnlyNearStopLine ==
  [][\A i \in DOMAIN vehicles \cap DOMAIN vehicles' :
       LET v == vehicles[i]
           w == vehicles'[i] IN
       (v.direction = "north" /\ v.lane_type = "straight") =>
         /\ w.waiting_time >= v.waiting_time
         /\ IF current_step < SwitchTick
            THEN IF near_stop_line(v)
                 THEN w.waiting_time = v.waiting_time + 1
                 ELSE w.waiting_time = v.waiting_time
            ELSE w.waiting_time = v.waiting_time]_vars

\* the state of a freshly constructed simulation, field by field
FreshlyConstructed ==
  /\ vehicles = << >>
  /\ next_vehicle_id = 0
  /\ current_step = 0
  /\ total_passed_vehicles = 0
  /\ metrics_collector.waiting_times = << >>
  /\ metrics_collector.throughputs = << >>
  /\ \A l \in Lanes : metrics_collector.queue_lengths[l] = << >>
  /\ metrics_collector.total_passed_vehicles = 0
  /\ metrics_collector.collision_count = 0
  /\ metrics_collector.total_steps = 0

\* C10: whatever steps came before, reset leaves the state of a freshly
\* constructed simulation, and a reset of that state leaves it as it is.
ResetRestoresFreshState ==
  [][reset => /\ FreshlyConstructed'
              /\ FreshlyConstructed => UNCHANGED vars]_vars

\* a state with vehicles on the road, vehicles already passed and metric
\* samples collected, from which reset is called
RunWorthResetting ==
  /\ vehicles # << >>
  /\ next_vehicle_id > 0
  /\ total_passed_vehicles > 0
  /\ metrics_collector.total_passed_vehicles > 0
  /\ Len(metrics_collector.throughputs) > 0

\* C11: with every spawn probability 0 the vehicle map is empty after every
\* step, whatever the phases, and the metrics returned by the step report
\* throughput 0 and average_waiting_time 0.
QuietRoadStaysEmpty ==
  /\ vehicles = << >>
  /\ get_metrics(metrics_collector).throughput = <<0, 1>>
  /\ get_metrics(metrics_collector).average_waiting_time = <<0, 1>>

\* the hundredth step of a run without spawning has returned
HundredQuietSteps ==
  /\ current_step = 100
  /\ Len(metrics_collector.waiting_times) = 100
  /\ Len(metrics_collector.throughputs) = 100

\* the vehicles constructed by the step that has just run
spawned_this_step ==
  {i \in DOMAIN vehicles : vehicles[i].spawn_time = current_step}

\* C12: without a reset, current_step grows by exactly 1 per step,
\* next_vehicle_id never decreases, every vehicle spawned by a step gets an
\* id that no earlier vehicle had (all earlier ids lie below the old
\* next_vehicle_id), no vehicle still on the road is replaced, and every key
\* of the map is the id of the vehicle stored under it.
IdsFreshAndTicksAdvance ==
  [][/\ current_step' = current_step + 1
     /\ next_vehicle_id' >= next_vehicle_id
     /\ \A i \in DOMAIN vehicles : i < next_vehicle_id
     /\ \A i \in spawned_this_step' :
          i >= next_vehicle_id /\ i < next_vehicle_id'
     /\ Cardinality(spawned_this_step') = next_vehicle_id' - next_vehicle_id
     /\ \A i \in DOMAIN vehicles \cap DOMAIN vehicles' :
          vehicles'[i].spawn_time = vehicles[i].spawn_time
     /\ \A i \in DOMAIN vehicles' : vehicles'[i].id = i]_vars

\* a vehicle was spawned after an earlier one had been removed while another
\* early vehicle is still on the road
SpawnedAfterRemoval ==
  /\ total_passed_vehicles > 0
  /\ \E i, j \in DOMAIN vehicles :
       /\ vehicles[i].spawn_time > RespawnTick
       /\ vehicles[j].spawn_time <= EarlyTicks

\* the ids that were on the road or handed out during the step and are no
\* longer in the map after it
removed_by_step ==
  (DOMAIN vehicles \cup (next_vehicle_id .. next_vehicle_id' - 1))
    \ DOMAIN vehicles'

\* C13: total_passed_vehicles never decreases, and every step adds to it
\* exactly the number of vehicles that the step removed from the map.
PassedCountsRemovals ==
  [][/\ total_passed_vehicles' >= total_passed_vehicles
     /\ total_passed_vehicles'
          = total_passed_vehicles + Cardinality(removed_by_step)]_vars

\* two vehicles have been removed and counted while another is on the road
TwoCountedOneDriving ==
  /\ total_passed_vehicles >= 2
  /\ vehicles # << >>

\* C14: after every step the current_vehicles field of the returned metrics
\* is the number of vehicles in the simulation's map.
CurrentVehiclesIsMapSize ==
  get_metrics(metrics_collector).current_vehicles
    = Cardinality(DOMAIN vehicles)

\* C15: after every step the throughput in the returned metrics is the
\* cumulative passed count over the elapsed ticks:
\* throughput * current_step = total_passed_vehicles.
ThroughputIsPassedPerTick ==
  current_step > 0 =>
    LET t == get_metrics(metrics_collector).throughput
    IN t[1] * current_step = total_passed_vehicles * t[2]

\* a non-zero throughput reported some ticks after the vehicles left
ThroughputAfterRemoval ==
  /\ total_passed_vehicles > 0
  /\ current_step > RespawnTick + 1
  /\ get_metrics(metrics_collector).throughput[1] > 0

\* C16: an update_metrics call with current_step = 0 does not fail, and the
\* next get_metrics reports throughput 0 for it, whatever the collector held.
ZeroTickReportsZero ==
  (metrics_collector.total_steps = 0
     /\ metrics_collector.waiting_times # << >>)
    => get_metrics(metrics_collector).throughput = <<0, 1>>

\* the queue-length sample of lane l for the vehicles vs
lane_queue(vs, l) ==
  Cardinality({i \in DOMAIN vs :
     /\ ~vs[i].passed
     /\ vs[i].speed < queue_speed
     /\ is_in_waiting_zone(vs[i])
     /\ <<vs[i].direction, vs[i].lane_type>> = l})

\* C17: each of the eight queue_lengths sequences holds at most 100 samples,
\* namely the min(n, 100) most recent ones after n updates, in arrival
\* order: every update appends the lane's sample of the tick at the end,
\* keeps the earlier samples in order, and evicts the oldest when full.
QueueWindowsHoldLatest ==
  [][\A l \in Lanes :
       LET q == metrics_collector.queue_lengths[l]
           r == metrics_collector'.queue_lengths[l]
       IN /\ Len(q) = Min(Len(metrics_collector.waiting_times), window)
          /\ Len(r) = Min(Len(metrics_collector'.waiting_times), window)
          /\ Len(r) <= window
          /\ r[Len(r)] = lane_queue(vehicles', l)
          /\ Len(q) < window => SubSeq(r, 1, Len(r) - 1) = q
          /\ Len(q) = window => SubSeq(r, 1, Len(r) - 1) = Tail(q)]_vars

\* more than 100 updates have run and a full window holds both samples of
\* an empty queue and samples of a queue of one
WindowOverflowed ==
  /\ Len(metrics_collector.waiting_times) > window
  /\ \E l \in Lanes :
       /\ Len(metrics_collector.queue_lengths[l]) = window
       /\ metrics_collector.queue_lengths[l][1] = 0
       /\ metrics_collector.queue_lengths[l][window] = 1

\* C18: update leaves every field of a vehicle with passed = true or with
\* collided = true as it was, for every phase value.
FinishedVehicleFrozen ==
  \A i \in DOMAIN vehicles, current_phase \in PhaseInputs,
     intersection_clear \in BOOLEAN :
    LET v == vehicles[i]
        c == [v EXCEPT !.collided = TRUE]
    IN /\ v.passed => update(v, current_phase, intersection_clear) = v
       /\ update(c, current_phase, intersection_clear) = c

\* a vehicle that has left the road, still held by its caller
PassedVehicleHeld == \E i \in DOMAIN vehicles : vehicles[i].passed

\* C19: within one step the outcome (every vehicle's fields, the removed
\* ids, total_passed_vehicles and the metric samples appended) is the same
\* for every order in which the update loop visits the vehicles, and it is
\* the outcome of updating each vehicle on its own.
UpdateOrderIrrelevant ==
  \A current_phase \in PhaseInputs :
    LET updated == update_all(vehicles, current_phase)
        removed == vehicles_to_remove(updated)
        kept == remove_vehicles(updated, removed)
        total == total_passed_vehicles + Cardinality(removed)
        independent ==
          [updated |-> updated, vehicles |-> kept, removed |-> removed,
           total_passed_vehicles |-> total,
           metrics |-> update_metrics(metrics_collector, collect_info(kept),
                                      current_phase, current_step + 1,
                                      Cardinality(removed), total)]
    IN \A order \in Orders(DOMAIN vehicles) :
         step_outcome(vehicles, order, current_phase) = independent

\* two vehicles on the road, one of which leaves on its next update
TwoVehiclesOneLeaving ==
  \E i, j \in DOMAIN vehicles :
    /\ i # j
    /\ update(vehicles[i], 0, TRUE).passed
    /\ ~update(vehicles[j], 0, TRUE).passed

\* C20: constructing a Vehicle with a direction outside north, south, east,
\* west or a lane_type outside straight, left fails, so no such vehicle is
\* ever on the road.
UnknownArgumentsRejected ==
  \A i \in DOMAIN vehicles :
    vehicles[i].direction \in Directions /\ vehicles[i].lane_type \in LaneTypes

\* the mean waiting_time over the vehicles vs, 0 when there is none
mean_waiting(vs) ==
  IF DOMAIN vs = {} THEN <<0, 1>>
  ELSE Frac(SumOver([i \in DOMAIN vs |-> vs[i].waiting_time], DOMAIN vs),
            Cardinality(DOMAIN vs))

\* C21: a step spawns, then updates, then removes, then collects metrics:
\* after it no vehicle in the map is passed, a vehicle spawned in the step
\* has already been updated once, the samples appended describe exactly
\* the vehicles left in the map, and the collector's total_steps and
\* total_passed_vehicles equal the simulation's.
MetricsObserveFinishedStep ==
  current_step > 0 =>
    /\ \A i \in DOMAIN vehicles : ~vehicles[i].passed
    /\ \A i \in spawned_this_step :
         \E current_phase \in PhaseInputs :
           vehicles[i] = update(Vehicle(i, vehicles[i].direction,
                                        vehicles[i].lane_type, current_step),
                                current_phase, TRUE)
    /\ metrics_collector.total_steps = current_step
    /\ metrics_collector.total_passed_vehicles = total_passed_vehicles
    /\ metrics_collector.waiting_times
           [Len(metrics_collector.waiting_times)] = mean_waiting(vehicles)
    /\ \A l \in Lanes :
         metrics_collector.queue_lengths[l]
           [Len(metrics_collector.queue_lengths[l])] = lane_queue(vehicles, l)

\* the metrics of a step that removed a vehicle and left a waiting one
CollectedAfterRemoval ==
  /\ total_passed_vehicles > 0
  /\ metrics_collector.total_passed_vehicles > 0
  /\ \E i \in DOMAIN vehicles : vehicles[i].waiting_time > 0

\* C22: a vehicle whose class the phase does not let through, and which is
\* on its approach farther than 10 units from the intersection boundary,
\* accelerates in that tick and its waiting_time is unchanged.
FarFromBoundaryDrivesOn ==
  \A i \in DOMAIN vehicles, current_phase \in PhaseInputs :
    LET v == vehicles[i]
        w == update(v, current_phase, TRUE)
    IN (/\ ~v.passed
        /\ approaching_intersection(v)
        /\ ~near_stop_line(v)
        /\ <<v.direction, v.lane_type>> \notin GreenClass(current_phase))
       => /\ w.speed = Min(max_speed, v.speed + acceleration)
          /\ w.waiting_time = v.waiting_time

\* C23: after an update that moves a vehicle (without turning it),
\* prev_x, prev_y hold the position it had before the move, and in the tick
\* in which the move crosses the centerline of its travel axis
\* crossed_centerline is true.
PreviousPositionRecorded ==
  \A i \in DOMAIN vehicles, current_phase \in PhaseInputs :
    LET v == vehicles[i]
        w == update(v, current_phase, TRUE)
        crosses == CASE v.direction = "north" -> v.y < 0 /\ 0 <= w.y
                     [] v.direction = "south" -> v.y > 0 /\ 0 >= w.y
                     [] v.direction = "east" -> v.x < 0 /\ 0 <= w.x
                     [] v.direction = "west" -> v.x > 0 /\ 0 >= w.x
    IN (/\ w.has_turned = v.has_turned
        /\ (w.x # v.x \/ w.y # v.y))
       => /\ w.prev_x = v.x /\ w.prev_y = v.y
          /\ crosses => crossed_centerline(w)

\* the heading and the point a left turn from the given direction snaps to
turn_target(direction) ==
  CASE direction = "north" -> [direction |-> "west", x |-> -50, y |-> 200]
    [] direction = "south" -> [direction |-> "east", x |-> 50, y |-> -200]
    [] direction = "east" -> [direction |-> "north", x |-> -200, y |-> -50]
    [] direction = "west" -> [direction |-> "south", x |-> 200, y |-> 50]

\* C24: an update turns a vehicle only if at its start the vehicle is in a
\* left lane, has not turned, does not have to wait, is inside the box of
\* half-width 30, within 4 units of its left-lane offset and within 6 units
\* of the centerline along its travel axis; the turn snaps it to the fixed
\* point of its heading and the move of the tick starts from there.
TurnOnlyAtCentre ==
  \A i \in DOMAIN vehicles, current_phase \in PhaseInputs :
    LET v == vehicles[i]
        w == update(v, current_phase, TRUE)
        across == IF v.direction \in {"north", "south"} THEN v.x ELSE v.y
        along == IF v.direction \in {"north", "south"} THEN v.y ELSE v.x
        offset == IF v.direction \in {"north", "east"} THEN -left_offset
                  ELSE left_offset
        t == turn_target(v.direction)
        snapped == [v EXCEPT !.direction = t.direction, !.x = t.x, !.y = t.y,
                             !.speed = w.speed]
    IN (w.has_turned # v.has_turned \/ w.direction # v.direction)
       => /\ v.lane_type = "left" /\ ~v.has_turned
          /\ ~should_wait(v, current_phase)
          /\ Abs(v.x) <= box_half_width /\ Abs(v.y) <= box_half_width
          /\ Abs(across - offset) < lane_tol
          /\ Abs(along) <= center_tol
          /\ w.has_turned /\ w.direction = t.direction
          /\ w.x = move(snapped).x /\ w.y = move(snapped).y

\* a left-lane vehicle that turns on its next update
AboutToTurn ==
  \E i \in DOMAIN vehicles :
    ~vehicles[i].has_turned /\ update(vehicles[i], 0, TRUE).has_turned

\* C25 as stated: after every step the in_intersection_zone flag of each
\* active vehicle is the box test on the position the vehicle has at the
\* end of the step.
ZoneFlagMatchesPosition ==
  \A i \in DOMAIN vehicles :
    vehicles[i].in_intersection_zone = in_intersection(vehicles[i])

\* C25 amended: after every step the in_intersection_zone flag of each
\* active vehicle is the box test on the position the vehicle had when its
\* update of that step began, before the turn and the move of the step (for
\* a vehicle spawned in the step, its spawn position).
ZoneFlagMatchesStartPosition ==
  [][\A i \in DOMAIN vehicles' :
       vehicles'[i].in_intersection_zone
         = in_intersection(IF i \in DOMAIN vehicles THEN vehicles[i]
                           ELSE Vehicle(i, vehicles'[i].direction,
                                        vehicles'[i].lane_type,
                                        current_step'))]_vars

\* a step has just carried a vehicle into or out of the box
CrossedBoxEdge ==
  \E i \in DOMAIN vehicles :
    vehicles[i].in_intersection_zone # in_intersection(vehicles[i])

\* the controller is in one of its phases with its timer below that
\* phase's duration
light_in_range(t) ==
  /\ t.current_phase \in 0 .. t.num_phases - 1
  /\ 0 <= t.phase_timer
  /\ t.phase_timer < t.phase_durations[t.current_phase + 1]

\* C26: for each fixed-time controller with all durations >= 1 the phase
\* is always one of 0 .. num_phases - 1 and 0 <= phase_timer < duration of
\* the current phase; a step keeps the phase or advances it to
\* (phase + 1) mod num_phases; a reset returns to phase 0 with timer 0.
PhasesCycleInOrder ==
  [][/\ light_in_range(traffic_light)
     /\ light_in_range(traffic_light')
     /\ phase_log' # << >> =>
          \/ traffic_light'.current_phase = traffic_light.current_phase
          \/ traffic_light'.current_phase
               = (traffic_light.current_phase + 1) % traffic_light.num_phases
     /\ phase_log' = << >> =>
          /\ traffic_light'.current_phase = 0
          /\ traffic_light'.phase_timer = 0]_vars

\* a controller with its default durations has been through all its phases
\* and is back in phase 0
FullCycleDone ==
  /\ traffic_light.phase_durations = default_phase_durations
  /\ Len(phase_log) > 1
  /\ phase_log[Len(phase_log) - 1] = 3
  /\ phase_log[Len(phase_log)] = 0

\* the index at which the run of equal values that ends at index k begins
run_start(log, k) ==
  CHOOSE j \in 1 .. k :
    /\ \A h \in j .. k : log[h] = log[k]
    /\ j = 1 \/ log[j - 1] # log[k]

\* C27: step() returns each phase p for exactly phase_durations[p]
\* consecutive calls before it returns the next phase, the first phase
\* after construction or reset included.
EachPhaseLastsItsDuration ==
  \A k \in 1 .. Len(phase_log) - 1 :
    phase_log[k + 1] # phase_log[k] =>
      k - run_start(phase_log, k) + 1
        = traffic_light.phase_durations[phase_log[k] + 1]

\* C28: under the cyclic controller, which grants each of the four classes
\* right-of-way again and again, every vehicle that is spawned is
\* eventually marked passed and removed from the map.
EveryVehicleLeaves ==
  \A i \in 0 .. MaxDriveVehicles - 1 :
    (i \in DOMAIN vehicles) ~> (i \notin DOMAIN vehicles)

\* every vehicle spawned has been removed, and one of them had to wait
\* for its phase
WaitedAndLeft ==
  /\ next_vehicle_id > 0
  /\ vehicles = << >>
  /\ total_passed_vehicles = next_vehicle_id
  /\ \E k \in 1 .. Len(metrics_collector.waiting_times) :
       metrics_collector.waiting_times[k][1] > 0

\* C29: a vehicle in its approach zone does not leave it during a tick
\* whose phase does not let its class through.
StaysBehindLineOnRed ==
  \A i \in DOMAIN vehicles, current_phase \in PhaseInputs :
    LET v == vehicles[i]
    IN (/\ ~v.passed
        /\ approaching_intersection(v)
        /\ <<v.direction, v.lane_type>> \notin GreenClass(current_phase))
       => approaching_intersection(update(v, current_phase, TRUE))

\* C30: between resets, after every step next_vehicle_id is the number of
\* vehicles in the map plus total_passed_vehicles, no vehicle is collided
\* and the collector's collision_count is 0.
SpawnedAreActiveOrPassed ==
  /\ next_vehicle_id = Cardinality(DOMAIN vehicles) + total_passed_vehicles
  /\ \A i \in DOMAIN vehicles : ~vehicles[i].collided
  /\ metrics_collector.collision_count = 0

\* some vehicles have passed, some are on the road
SomePassedSomeActive ==
  /\ total_passed_vehicles > 0
  /\ Cardinality(DOMAIN vehicles) > 0
  /\ next_vehicle_id = MaxRespawnVehicles

\* C31: every queue-length sample appended for a lane is between 0 and the
\* spawn capacity 4, also when turned vehicles have joined the lane's
\* (direction, lane_type) pair.
QueueSampleWithinCapacity ==
  \A l \in Lanes :
    LET q == metrics_collector.queue_lengths[l]
    IN q # << >> => (0 <= q[Len(q)] /\ q[Len(q)] <= lane_capacity)

\* a lane holds more active vehicles than its capacity because a turned
\* vehicle has joined it, and its sample of the tick is the full capacity
FullQueueJoinedByTurner ==
  \E l \in Lanes :
    /\ Cardinality(lane_vehicles(vehicles, l[1], l[2])) > lane_capacity
    /\ \E i \in DOMAIN vehicles :
         vehicles[i].has_turned /\ <<vehicles[i].direction,
                                     vehicles[i].lane_type>> = l
    /\ metrics_collector.queue_lengths[l]
         [Len(metrics_collector.queue_lengths[l])] = lane_capacity

\* C32: a FixedCycleTrafficLight stepped with dt = 1 and a
\* FixedTimeTrafficLight with durations 60, 60, 40, 40, started together,
\* return the same phase from every step() call and report the same
\* current_phase and remaining_time from get_status(), through any number
\* of steps and resets.
ControllersInterchangeable ==
  LET cycle == FixedCycleTrafficLight_get_status(traffic_light[1])
      time == FixedTimeTrafficLight_get_status(traffic_light[2])
  IN /\ phase_log # << >> =>
          phase_log[Len(phase_log)][1] = phase_log[Len(phase_log)][2]
     /\ cycle.current_phase = time.current_phase
     /\ cycle.remaining_time = 10 * time.remaining_time

\* both controllers have gone through all four phases and are back in
\* phase 0
TwinsCompletedCycle ==
  /\ Len(phase_log) > 1
  /\ phase_log[Len(phase_log) - 1] = <<3, 3>>
  /\ phase_log[Len(phase_log)] = <<0, 0>>

====
